---- MODULE Spec2Model ----
(***************************************************************************)
(* Model of the XML DOM parser of go-xdom (src/xdom.go, first variant,     *)
(* lines 1-829): Text.KindOf, TextList.Read, Attribute.Read,               *)
(* Element.Read, Element.Depth and Document.Read.                          *)
(*                                                                         *)
(* A Text is a sequence of one-character strings.  The code's indices are  *)
(* 0-based; At and Slice keep the code's indices.  The operators of the    *)
(* imported package github.com/syntelos/go-span (Class, First, Last,       *)
(* Forward, Cat and the byte classes WS, XI, XA) belong to another         *)
(* repository; they follow sections 4.1 and 4.3 of the specification,      *)
(* whose conventions are those of the earlier operators Text.class,        *)
(* Text.scan and Text.read of this repository (src/xdom.go 1365-1423).     *)
(***************************************************************************)
EXTENDS Integers, Sequences, FiniteSets, TLC

\* ------------------------------------------------------------------ bytes
At(s, i) == s[i + 1]

Slice(s, a, b) == SubSeq(s, a + 1, b)

SetMax(S) == CHOOSE m \in S : \A n \in S : n <= m

SetMin(S) == CHOOSE m \in S : \A n \in S : m <= n

Lower == {"a","b","c","d","e","f","g","h","i","j","k","l","m",
          "n","o","p","q","r","s","t","u","v","w","x","y","z"}

Upper == {"A","B","C","D","E","F","G","H","I","J","K","L","M",
          "N","O","P","Q","R","S","T","U","V","W","X","Y","Z"}

Digit == {"0","1","2","3","4","5","6","7","8","9"}

WS == {" ", "\t", "\r", "\n"}

XI == Lower \cup Upper \cup Digit \cup {"_", "-", "+", ".", ":"}

XA == XI \cup {"=", "/", "'", "\"", "?", "%", "!", "#", "$",
               "(", ")", "[", "]", "*"}

\* ------------------------------------------------------- package span
\* Index of the last byte of the run of class bytes that starts at ofs,
\* -1 when the byte at ofs is not in the class.
Class(src, ofs, len, class) ==
    LET run == {i \in ofs..(len - 1) : \A j \in ofs..i : At(src, j) \in class}
    IN  IF run = {} THEN -1 ELSE SetMax(run)

\* First occurrence of ch at or after ofs, ofs itself when there is none.
First(src, ofs, len, ch) ==
    LET hit == {i \in ofs..(len - 1) : At(src, i) = ch}
    IN  IF hit = {} THEN ofs ELSE SetMin(hit)

\* Last occurrence of ch at or before ofs, ofs itself when there is none.
Last(src, ofs, len, ch) ==
    LET hit == {i \in 0..ofs : i < len /\ At(src, i) = ch}
    IN  IF hit = {} THEN ofs ELSE SetMax(hit)

\* End of the span that starts at x: for a span opened by the open byte the
\* index of the next close byte, otherwise the index before the next open
\* byte; x (or x-1) when the delimiter is missing, -1 at the last byte.
Forward(src, x, z, open, close) ==
    IF x < z /\ x < z - 1
    THEN IF At(src, x) = open
         THEN LET hit == {i \in (x + 1)..(z - 1) : At(src, i) = close}
              IN  IF hit = {} THEN x ELSE SetMin(hit)
         ELSE First(src, x, z, open) - 1
    ELSE -1

Cat(a, b) == a \o b

\* ------------------------------------------------------------- Text.KindOf
KindUndefined == "Undefined"
KindDocument == "Document"
KindAttribute == "Attribute"
KindDeclaration == "Declaration"
KindInstruction == "Instruction"
KindOpen == "Open"
KindSolitary == "Solitary"
KindClose == "Close"
KindText == "Text"
KindData == "Data"

IsCode(k) == k \in {KindDocument, KindAttribute, KindDeclaration,
                    KindInstruction, KindOpen, KindSolitary, KindClose}

IsText(k) == k \in {KindText, KindData}

IsBody(k) == k \in {KindOpen, KindSolitary, KindClose}

\* KindOf with the guard x < y after the brackets weakened to x <= y.
KindOfThreeBytes(this) ==
    LET z == Len(this)
        y == z - 1
    IN  IF 0 < z /\ 0 < y
        THEN IF At(this, 0) = "<" /\ At(this, y) = ">"
             THEN IF 1 <= y - 1
                  THEN CASE At(this, 1) = "?" -> KindInstruction
                         [] At(this, 1) = "!" ->
                              IF 2 < y - 1
                              THEN IF At(this, 2) = "[" THEN KindData
                                   ELSE KindDeclaration
                              ELSE KindUndefined
                         [] At(this, 1) = "/" -> KindClose
                         [] OTHER ->
                              IF At(this, y - 1) = "/" THEN KindSolitary
                              ELSE KindOpen
                  ELSE KindUndefined
             ELSE IF Class(this, 0, z, WS) = y THEN KindUndefined
                  ELSE KindText
        ELSE KindUndefined

KindOf(this) ==
    LET z == Len(this)
        y == z - 1
    IN  IF 0 < z /\ 0 < y
        THEN IF At(this, 0) = "<" /\ At(this, y) = ">"
             THEN IF 1 < y - 1
                  THEN CASE At(this, 1) = "?" -> KindInstruction
                         [] At(this, 1) = "!" ->
                              IF 2 < y - 1
                              THEN IF At(this, 2) = "[" THEN KindData
                                   ELSE KindDeclaration
                              ELSE KindUndefined
                         [] At(this, 1) = "/" -> KindClose
                         [] OTHER ->
                              IF At(this, y - 1) = "/" THEN KindSolitary
                              ELSE KindOpen
                  ELSE KindUndefined
             ELSE IF Class(this, 0, z, WS) = y THEN KindUndefined
                  ELSE KindText
        ELSE KindUndefined

\* ---------------------------------------------------------- Attribute.Read
NoError == "nil"
ErrAttributeQuote == "Attribute quote missing"
ErrAttributeSyntax == "Attribute syntax"
ErrAttributeEmpty == "Attribute empty"
\* a run-time panic of the Go program (index or slice out of range)
Panic == "panic"

Attribute(content, name, value, er) ==
    [content |-> content, name |-> name, value |-> value, er |-> er]

AttributeRead(content) ==
    LET z == Len(content)
    IN  IF 0 < z
        THEN IF At(content, 0) = "\""
             THEN IF At(content, z - 1) = "\""
                  THEN Attribute(content, <<>>, content, NoError)
                  ELSE Attribute(content, <<>>, <<>>, ErrAttributeQuote)
             ELSE LET y == Class(content, 0, z, XI)
                  IN  IF 0 < y
                      THEN IF y + 1 < z
                           THEN IF At(content, y + 1) = "="
                                THEN IF y + 2 < z
                                     THEN Attribute(content,
                                              Slice(content, 0, y + 1),
                                              <<At(content, y + 2)>>, NoError)
                                     ELSE Attribute(content,
                                              Slice(content, 0, y + 1),
                                              <<>>, Panic)
                                ELSE Attribute(content, <<>>, <<>>,
                                               ErrAttributeSyntax)
                           ELSE Attribute(content, content, <<>>, NoError)
                      ELSE Attribute(content, <<>>, content, NoError)
        ELSE Attribute(content, <<>>, <<>>, ErrAttributeEmpty)

\* ------------------------------------------------------------ TextList.Read
\* TextListStep without the test of the Kind: every span is appended.
TextListStepKeepAll(content, x, this) ==
    LET z == Len(content)
        first == x
        last == Forward(content, x, z, "<", ">")
    IN  IF first < last
        THEN [x |-> last + 1,
              this |-> Append(this, Slice(content, first, last + 1))]
        ELSE [x |-> x + 1, this |-> this]

\* TextListStep without the advance by one byte when no span is formed.
TextListStepStuck(content, x, this) ==
    LET z == Len(content)
        first == x
        last == Forward(content, x, z, "<", ">")
    IN  IF first < last
        THEN LET text == Slice(content, first, last + 1)
             IN  [x |-> last + 1,
                  this |-> IF KindUndefined # KindOf(text)
                           THEN Append(this, text) ELSE this]
        ELSE [x |-> x, this |-> this]

\* One iteration of the loop: the cursor and the list after it.
TextListStep(content, x, this) ==
    LET z == Len(content)
        first == x
        last == Forward(content, x, z, "<", ">")
    IN  IF first < last
        THEN LET text == Slice(content, first, last + 1)
             IN  [x |-> last + 1,
                  this |-> IF KindUndefined # KindOf(text)
                           THEN Append(this, text) ELSE this]
        ELSE [x |-> x + 1, this |-> this]

RECURSIVE TextListLoop(_, _, _)
TextListLoop(content, x, this) ==
    IF x < Len(content)
    THEN LET s == TextListStep(content, x, this)
         IN  TextListLoop(content, s.x, s.this)
    ELSE this

\* TextList.Read never returns an error: the list is the whole result.
TextListRead(content) == TextListLoop(content, 0, <<>>)

\* ------------------------------------------------------------- Element.Read
identifier(this, ofs) ==
    LET z == Len(this)
        y == Class(this, ofs, z, XI)
    IN  IF ofs <= y /\ y <= z THEN Slice(this, ofs, y + 1) ELSE this

NameOffset(kind) ==
    CASE kind \in {KindDeclaration, KindInstruction, KindClose} -> 2
      [] kind \in {KindOpen, KindSolitary} -> 1
      [] OTHER -> 0

\* The attribute loop (lines 348-476): the cursor, the attributes and the
\* error after it.  at_be is x, at_en is y + 1.
RECURSIVE AttributeLoop(_, _, _)
AttributeLoop(content, x0, attributes) ==
    LET z == Len(content)
        Stop(x) == [x |-> x, attributes |-> attributes, er |-> NoError]
        Fail(x, er) == [x |-> x, attributes |-> attributes, er |-> er]
        Take(x, y) ==
            IF y + 1 < x THEN Fail(x, Panic)
            ELSE LET at == AttributeRead(Slice(content, x, y + 1))
                 IN  IF at.er # NoError THEN Fail(x, at.er)
                     ELSE AttributeLoop(content, y + 1, Append(attributes, at))
        Quoted(x, from, q) ==
            LET y == Forward(content, from, z, q, q)
            IN  IF 0 < y THEN Take(x, y) ELSE Stop(x)
    IN  IF x0 < z
        THEN LET w == Class(content, x0, z, WS)
             IN  IF 0 < w
                 THEN LET x == w + 1
                      IN  IF x >= z THEN Fail(x, Panic)
                          ELSE IF At(content, x) = "\"" THEN Quoted(x, x, "\"")
                          ELSE IF At(content, x) = "'" THEN Quoted(x, x, "'")
                          ELSE LET y == Class(content, x, z, XI)
                               IN  IF 0 < y
                                   THEN IF At(content, y) = "="
                                        THEN IF y + 1 >= z THEN Fail(x, Panic)
                                             ELSE IF At(content, y + 1) = "\""
                                             THEN Quoted(x, y + 1, "\"")
                                             ELSE IF At(content, y + 1) = "'"
                                             THEN Quoted(x, y + 1, "'")
                                             ELSE LET v == Class(content, y + 1, z, XA)
                                                  IN  IF 0 < v THEN Take(x, v)
                                                      ELSE Stop(x)
                                        ELSE Take(x, y)
                                   ELSE Stop(x)
                 ELSE Stop(x0)
        ELSE Stop(x0)

\* An Element value.  The parent is <<>> for nil and <<p>> for a node p:
\* Element.Read is called on a fresh `var el Element` and assigns content,
\* name, attributes and children only, so the parent stays nil.
Element(content, name, attributes, children) ==
    [node |-> "Element", content |-> content, name |-> name,
     attributes |-> attributes, children |-> children, parent |-> <<>>]

TextNode(content) == [node |-> "Text", content |-> content]

ElementKindOf(content) ==
    IF 0 # Len(content) THEN KindOf(content) ELSE KindUndefined

ElementHeadOf(kind, name, a) ==
    [kind |-> kind, name |-> name, x |-> a.x, attributes |-> a.attributes,
     er |-> a.er]

\* The head of Element.Read (lines 322-477): name and attributes.
ElementHead(content) ==
    LET kind == ElementKindOf(content)
        x == NameOffset(kind)
        name == identifier(content, x)
    IN  IF kind \in {KindDeclaration, KindInstruction, KindOpen, KindSolitary}
        THEN ElementHeadOf(kind, name,
                           AttributeLoop(content, x + Len(name), <<>>))
        ELSE ElementHeadOf(kind, name,
                           [x |-> x, attributes |-> <<>>, er |-> NoError])

\* The body of an Open element (lines 481-492): whether content[w:y] is
\* taken, and its bounds.
ElementBody(content, kind, x) ==
    LET z == Len(content)
        w == First(content, x, z, ">")
        y == Last(content, z - 1, z, "<")
    IN  [taken |-> (KindOpen = kind /\ x < w /\ w < z /\ x < y /\ y < z),
         w |-> w, y |-> y]

\* The content a step of the walk hands to Element.Read when it builds a
\* child: the token itself (Solitary), the pending body with the token (Close).
WalkChild(st, text) ==
    IF KindOf(text) = KindClose THEN Cat(st.body, text) ELSE text

\* One iteration of the walk over the sibling tokens (lines 502-541); r is
\* what Element.Read returns for the child this step builds.
WalkStep(st, text, r) ==
    LET kind == KindOf(text)
    IN  CASE kind = KindOpen ->
               [st EXCEPT !.body = Cat(st.body, text), !.stack = st.stack + 1]
          [] kind = KindSolitary ->
               IF 0 = st.stack
               THEN IF r.er # NoError THEN [st EXCEPT !.er = r.er]
                    ELSE [st EXCEPT !.children = Append(st.children, r.el)]
               ELSE [st EXCEPT !.body = Cat(st.body, text)]
          [] kind = KindClose ->
               IF 0 = st.stack - 1
               THEN IF r.er # NoError
                    THEN [st EXCEPT !.body = Cat(st.body, text),
                                    !.stack = st.stack - 1, !.er = r.er]
                    ELSE [st EXCEPT !.body = <<>>, !.stack = st.stack - 1,
                                    !.children = Append(st.children, r.el)]
               ELSE [st EXCEPT !.body = Cat(st.body, text),
                               !.stack = st.stack - 1]
          [] kind \in {KindText, KindData} ->
               [st EXCEPT !.body = Cat(st.body, text)]
          [] OTHER -> st

WalkInit == [stack |-> 0, body |-> <<>>, children |-> <<>>, er |-> NoError]

RECURSIVE ElementRead(_)

\* The walk over the whole list (lines 502-541): the state after the last
\* token, or at the first error, which returns.
ElementWalk(list) ==
    LET walk[i \in 0..Len(list)] ==
            IF i = 0 THEN WalkInit
            ELSE IF walk[i - 1].er # NoError THEN walk[i - 1]
            ELSE WalkStep(walk[i - 1], list[i],
                          ElementRead(WalkChild(walk[i - 1], list[i])))
    IN  walk[Len(list)]

\* What Element.Read returns: the element and the error.
ElementOf(content, h, children, er) ==
    [er |-> er, el |-> Element(content, h.name, h.attributes, children)]

ElementReturn(content, h, st) == ElementOf(content, h, st.children, st.er)

\* lines 481-546, given the head h and the body bounds b
ElementReadBody(content, h, b) ==
    IF h.er # NoError THEN ElementOf(content, h, <<>>, h.er)
    ELSE IF ~b.taken THEN ElementOf(content, h, <<>>, NoError)
    ELSE IF b.w > b.y THEN ElementOf(content, h, <<>>, Panic)
    ELSE ElementReturn(content, h,
             ElementWalk(TextListRead(Slice(content, b.w, b.y))))

ElementReadHeaded(content, h) ==
    ElementReadBody(content, h, ElementBody(content, h.kind, h.x))

ElementRead(content) == ElementReadHeaded(content, ElementHead(content))

\* ------------------------------------------------------------ Document.Read
DocumentInit == [body |-> <<>>, children |-> <<>>, er |-> NoError]

\* One iteration of the loop over the tokens (lines 204-235); r is what
\* Element.Read returns for the token, used for the tokens of the head.
DocumentStep(st, text, r) ==
    LET kind == KindOf(text)
    IN  IF IsCode(kind)
        THEN IF IsBody(kind)
             THEN [st EXCEPT !.body = Cat(st.body, text)]
             ELSE IF r.er # NoError THEN [st EXCEPT !.er = r.er]
                  ELSE [st EXCEPT !.children = Append(st.children, r.el)]
        ELSE IF IsText(kind)
        THEN IF 0 = Len(st.body)
             THEN [st EXCEPT !.children = Append(st.children, TextNode(text))]
             ELSE [st EXCEPT !.body = Cat(st.body, text)]
        ELSE st

\* Lines 240-248: the Element read from the body; r is what Element.Read
\* returns for it.
DocumentBody(st, r) ==
    IF r.er # NoError THEN [st EXCEPT !.er = r.er]
    ELSE [st EXCEPT !.children = Append(st.children, r.el)]

\* ------------------------------------------------------------ Element.Depth
\* The loop of lines 307-319 from the node p with the count c (a uint8).
RECURSIVE DepthLoop(_, _)
DepthLoop(p, c) ==
    IF p # <<>>
    THEN IF KindOpen = ElementKindOf(p[1].content)
         THEN DepthLoop(p[1].parent, (c + 1) % 256)
         ELSE (c + 1) % 256
    ELSE c

Depth(this) == DepthLoop(this.parent, 1)

\* ================================================================= state
VARIABLES
    pc,          \* position of the running operation
    content,     \* the Text handed to the operation
    x,           \* TextList.Read: the cursor
    list,        \* the TextList: result of TextList.Read, siblings of a body
    scanned,     \* history: the spans [begin, end) formed by TextList.Read
    iters,       \* history: iterations of the loop of TextList.Read
    name,        \* Element.name
    attributes,  \* Element.attributes
    taken,       \* Element.Read: the body content[w:y] was taken
    ix,          \* index of the range loop over list
    stack,       \* Element.Read: the nesting counter
    body,        \* the pending body bytes
    children,    \* the children appended so far
    er,          \* the error returned
    ret          \* the value returned by Text.KindOf or Attribute.Read

vars == <<pc, content, x, list, scanned, iters, name, attributes, taken,
          ix, stack, body, children, er, ret>>

\* ---------------------------------------------------------------- bounds
MaxKindLen == 5
MaxAttrLen == 5
MaxTokLen == 5
MaxPieces == 4
MaxSpanLen == 5
MaxAttrs == 2
MaxDocPieces == 4

\* All sequences over S of length at most n.
SeqsUpTo(S, n) == UNION {[1..m -> S] : m \in 0..n}

RECURSIVE Flatten(_)
Flatten(ss) == IF ss = <<>> THEN <<>> ELSE Head(ss) \o Flatten(Tail(ss))

KindBytes == {"<", ">", "?", "!", "[", "/", "a", " "}
AttrBytes == {"\"", "'", "a", "=", "1"}
TokBytes == {"<", ">", "/", "a", " "}

OpenTags == { <<"<","a"," ","x","=","\"","1","\"",">">>, <<"<","a","a",">">> }
BodyPieces == { <<"<","b","b",">">>, <<"<","/","b","b",">">>,
                <<"<","c","/",">">>, <<"t","x">>, <<" "," ">>,
                <<"<","d"," ","e","=","f",">">> }
CloseTag == <<"<","/","a",">">>

InitRest ==
    /\ x = 0
    /\ list = <<>>
    /\ scanned = <<>>
    /\ iters = 0
    /\ name = <<>>
    /\ attributes = <<>>
    /\ taken = FALSE
    /\ ix = 1
    /\ stack = 0
    /\ body = <<>>
    /\ children = <<>>
    /\ er = NoError
    /\ ret = KindUndefined

\* ------------------------------------------------- Text.KindOf, applied
InitKindOf ==
    /\ pc = "call"
    /\ content \in SeqsUpTo(KindBytes, MaxKindLen)
    /\ InitRest

TextKindOf ==
    /\ pc = "call"
    /\ ret' = KindOf(content)
    /\ pc' = "done"
    /\ UNCHANGED <<content, x, list, scanned, iters, name, attributes, taken,
                   ix, stack, body, children, er>>

NextKindOf == TextKindOf

SpecKindOf == InitKindOf /\ [][NextKindOf]_vars

\* ----------------------------------------------- Attribute.Read, applied
InitAttribute ==
    /\ pc = "call"
    /\ content \in SeqsUpTo(AttrBytes, MaxAttrLen)
    /\ InitRest

AttributeReadCall ==
    /\ pc = "call"
    /\ ret' = AttributeRead(content)
    /\ er' = ret'.er
    /\ pc' = "done"
    /\ UNCHANGED <<content, x, list, scanned, iters, name, attributes, taken,
                   ix, stack, body, children>>

NextAttribute == AttributeReadCall

SpecAttribute == InitAttribute /\ [][NextAttribute]_vars

\* --------------------------------------------------- TextList.Read, stepped
\* The error TextList.Read returns (line 828).
TextListReturn(c) == NoError

InitTextList ==
    /\ pc = "loop"
    /\ content \in SeqsUpTo(TokBytes, MaxTokLen)
    /\ InitRest

TextListReadIter ==
    /\ pc = "loop"
    /\ x < Len(content)
    /\ LET s == TextListStep(content, x, list)
           last == Forward(content, x, Len(content), "<", ">")
       IN  /\ x' = s.x
           /\ list' = s.this
           /\ scanned' = IF x < last
                         THEN Append(scanned, [begin |-> x, end |-> last + 1])
                         ELSE scanned
    /\ iters' = iters + 1
    /\ UNCHANGED <<pc, content, name, attributes, taken, ix, stack, body,
                   children, er, ret>>

TextListReadReturn ==
    /\ pc = "loop"
    /\ ~(x < Len(content))
    /\ er' = TextListReturn(content)
    /\ pc' = "done"
    /\ UNCHANGED <<content, x, list, scanned, iters, name, attributes, taken,
                   ix, stack, body, children, ret>>

NextTextList == TextListReadIter \/ TextListReadReturn

SpecTextList == InitTextList /\ [][NextTextList]_vars

\* the loop is the body of one call: once started it runs to its return
FairTextList == SpecTextList /\ WF_vars(NextTextList)

\* ---------------------------------------------------- Element.Read, stepped
InitElement ==
    /\ pc = "head"
    /\ content \in {o \o Flatten(ps) \o CloseTag :
                        o \in OpenTags, ps \in SeqsUpTo(BodyPieces, MaxPieces)}
    /\ InitRest

\* lines 322-500: name, attributes, the body slice and its tokens
ElementReadHeadStep(h, b) ==
    /\ name' = h.name
    /\ attributes' = h.attributes
    /\ IF h.er # NoError
       THEN /\ er' = h.er
            /\ pc' = "done"
            /\ UNCHANGED <<taken, list>>
       ELSE IF ~b.taken
       THEN /\ er' = NoError
            /\ pc' = "done"
            /\ UNCHANGED <<taken, list>>
       ELSE IF b.w > b.y
       THEN /\ er' = Panic
            /\ pc' = "done"
            /\ UNCHANGED <<taken, list>>
       ELSE /\ taken' = TRUE
            /\ list' = TextListRead(Slice(content, b.w, b.y))
            /\ pc' = "walk"
            /\ UNCHANGED er

ElementReadHeadBody(h) ==
    ElementReadHeadStep(h, ElementBody(content, h.kind, h.x))

ElementReadHead ==
    /\ pc = "head"
    /\ ElementReadHeadBody(ElementHead(content))
    /\ UNCHANGED <<content, x, scanned, iters, ix, stack, body, children, ret>>

\* lines 502-541: one sibling token
ElementReadWalkStep(st) ==
    /\ stack' = st.stack
    /\ body' = st.body
    /\ children' = st.children
    /\ er' = st.er
    /\ pc' = IF st.er # NoError THEN "done" ELSE "walk"

\* the state of the walk, as the record WalkStep takes
WalkState ==
    [stack |-> stack, body |-> body, children |-> children, er |-> NoError]

ElementReadWalk ==
    /\ pc = "walk"
    /\ ix <= Len(list)
    /\ ElementReadWalkStep(
           WalkStep(WalkState, list[ix],
                    ElementRead(WalkChild(WalkState, list[ix]))))
    /\ ix' = ix + 1
    /\ UNCHANGED <<content, x, list, scanned, iters, name, attributes, taken,
                   ret>>

\* line 546: the end of the list
ElementReadReturn ==
    /\ pc = "walk"
    /\ ix > Len(list)
    /\ pc' = "done"
    /\ UNCHANGED <<content, x, list, scanned, iters, name, attributes, taken,
                   ix, stack, body, children, er, ret>>

NextElement == ElementReadHead \/ ElementReadWalk \/ ElementReadReturn

SpecElement == InitElement /\ [][NextElement]_vars

\* ------------------------------------------- Element.Read on single spans
SpanBytes == {"<", ">", "/", "a", " ", "="}

\* The opening and closing marks of the tags that carry attributes.
TagMarks ==
    { [open |-> <<"<","?","x","m","l">>, close |-> <<"?",">">>],
      [open |-> <<"<","!","d">>, close |-> <<">">>],
      [open |-> <<"<","a">>, close |-> <<">">>],
      [open |-> <<"<","b","r">>, close |-> <<"/",">">>] }

\* The attributes written in a tag: name="value".
AttrPairs ==
    { [name |-> <<"v">>, value |-> <<"1",".","0">>],
      [name |-> <<"i","d">>, value |-> <<"x">>],
      [name |-> <<"n","s",":","k">>, value |-> <<>>] }

AttrLists == SeqsUpTo(AttrPairs, MaxAttrs) \ {<<>>}

AttrText(a) == <<" ">> \o a.name \o <<"=", "\"">> \o a.value \o <<"\"">>

TagOf(m, as) ==
    m.open \o Flatten([i \in 1..Len(as) |-> AttrText(as[i])]) \o m.close

InitSpan ==
    /\ pc = "head"
    /\ content \in SeqsUpTo(SpanBytes, MaxSpanLen)
                   \cup {TagOf(m, as) : m \in TagMarks, as \in AttrLists}
                   \cup {o \o p \o CloseTag : o \in OpenTags, p \in BodyPieces}
    /\ InitRest

SpecSpan == InitSpan /\ [][NextElement]_vars

\* --------------------------------------------------- Document.Read, stepped
DocPieces ==
    { <<"<","?","x"," ","v","=","\"","1","\"","?",">">>,
      <<"<","a","a",">">>, <<"<","/","a","a",">">>,
      <<"<","b"," ","i","=","\"","1","\"",">">>, <<"<","/","b",">">>,
      <<"<","c","/",">">>, <<"t","x">>, <<"<","d","=","<",">">> }

InitDocument ==
    /\ pc = "source"
    /\ content \in {Flatten(ps) : ps \in SeqsUpTo(DocPieces, MaxDocPieces)}
    /\ InitRest

\* line 199: the tokens of the buffer
DocumentReadSource ==
    /\ pc = "source"
    /\ list' = TextListRead(content)
    /\ er' = TextListReturn(content)
    /\ pc' = "range"
    /\ UNCHANGED <<content, x, scanned, iters, name, attributes, taken, ix,
                   stack, body, children, ret>>

\* the state st after a step; an error returns, otherwise pc moves to "to"
DocumentReadStep(st, to) ==
    /\ body' = st.body
    /\ children' = st.children
    /\ er' = st.er
    /\ pc' = IF st.er # NoError THEN "done" ELSE to

\* the state of Document.Read, as the record DocumentStep takes
DocumentState == [body |-> body, children |-> children, er |-> NoError]

\* lines 204-235: one token
DocumentReadRange ==
    /\ pc = "range"
    /\ ix <= Len(list)
    /\ DocumentReadStep(
           DocumentStep(DocumentState, list[ix], ElementRead(list[ix])),
           "range")
    /\ ix' = ix + 1
    /\ UNCHANGED <<content, x, list, scanned, iters, name, attributes, taken,
                   stack, ret>>

\* lines 237-250: the Element of the body, and the return
DocumentReadBody ==
    /\ pc = "range"
    /\ ix > Len(list)
    /\ DocumentReadStep(DocumentBody(DocumentState, ElementRead(body)),
                        "done")
    /\ UNCHANGED <<content, x, list, scanned, iters, name, attributes, taken,
                   ix, stack, ret>>

NextDocument == DocumentReadSource \/ DocumentReadRange \/ DocumentReadBody

SpecDocument == InitDocument /\ [][NextDocument]_vars

\* ================================================================ claims
Quotes == {"\"", "'"}

Bracketed(c) == Len(c) >= 2 /\ At(c, 0) = "<" /\ At(c, Len(c) - 1) = ">"

\* C1: tokenizing an empty buffer fails: TextList.Read called with a
\* zero-length content returns a non-nil error.
C1_EmptyInputFails ==
    (pc = "done" /\ Len(content) = 0) => er # NoError

\* C2: when the walk over the body of an Open element ends with the nesting
\* counter different from zero, Element.Read returns an error, never success.
C2_UnbalancedFails ==
    (pc = "done" /\ taken /\ stack # 0) => er # NoError

\* C3: every Text or Data sibling token met while the nesting counter is 0
\* becomes a direct Text child of the element, appended at that position.
C3_TextBecomesChild ==
    [][(pc = "walk" /\ ix <= Len(list) /\ stack = 0
            /\ KindOf(list[ix]) \in {KindText, KindData})
        => children' = Append(children, TextNode(list[ix]))]_vars

\* The bytes between the open tag and the final close tag of an Open element.
BodyBytes(c, b) == Slice(c, b.w + 1, b.y)

ChildrenBytes(ch) == Flatten([i \in 1..Len(ch) |-> ch[i].content])

\* C4: round trip: for every Open element built successfully, the raw spans
\* of its children, concatenated in order, are exactly the bytes of its body.
C4_RoundTrip ==
    (pc = "done" /\ taken /\ er = NoError)
        => ChildrenBytes(children)
             = BodyBytes(content,
                         ElementBody(content, KindOpen, ElementHead(content).x))

\* The Kind the specification gives a bracketed span, by the byte after `<`
\* and the byte before the final `>`.
KindByMarkers(c) ==
    CASE At(c, 1) = "?" -> KindInstruction
      [] At(c, 1) = "!" -> IF At(c, 2) = "[" THEN KindData ELSE KindDeclaration
      [] At(c, 1) = "/" -> KindClose
      [] OTHER -> IF At(c, Len(c) - 2) = "/" THEN KindSolitary ELSE KindOpen

\* C5 as stated: every span that starts with `<` and ends with `>` (and has a
\* byte between them) is classified by its markers.
C5_Original ==
    (pc = "done" /\ Bracketed(content) /\ Len(content) >= 3)
        => ret = KindByMarkers(content)

\* C5, amended: a bracketed span is classified by its markers when it has at
\* least 4 bytes (5 bytes when the byte after `<` is `!`); every shorter
\* bracketed span is Undefined.
C5_KindOfBracketed ==
    (pc = "done" /\ Bracketed(content))
        => ret = IF Len(content) >= 5
                    \/ (Len(content) = 4 /\ At(content, 1) # "!")
                 THEN KindByMarkers(content)
                 ELSE KindUndefined

C5_Witness ==
    /\ pc = "done"
    /\ Bracketed(content)
    /\ Len(content) = 5
    /\ At(content, 1) = "!"
    /\ ret = KindData

\* C6: a span whose first and last bytes are not the pair `<`, `>` is Text
\* when it holds a non-whitespace byte and Undefined otherwise, whatever its
\* length.
C6_KindOfText ==
    (pc = "done" /\ ~Bracketed(content))
        => ret = IF \E i \in 1..Len(content) : content[i] \notin WS
                 THEN KindText ELSE KindUndefined

\* The spans TextList.Read formed so far, as Texts.
ScannedText(i) == Slice(content, scanned[i].begin, scanned[i].end)

Defined(text) == KindUndefined # KindOf(text)

C8_Terminates ==
    /\ <>(pc = "done")
    /\ [][(pc = "loop" /\ x < Len(content)) => x' > x]_vars
    /\ [](iters <= Len(content))

C8_Witness ==
    /\ pc = "done"
    /\ Len(scanned) >= 1
    /\ iters > Len(scanned)

\* An identifier run of length k >= 1, then `=`, then a value.
NameValue(c, k) ==
    /\ k >= 1
    /\ k + 1 < Len(c)
    /\ \A i \in 0..(k - 1) : At(c, i) \in XI
    /\ At(c, k) = "="

Unquote(v) ==
    IF Len(v) >= 2 /\ v[1] \in Quotes /\ v[Len(v)] = v[1]
    THEN SubSeq(v, 2, Len(v) - 1) ELSE v

\* C9: for an identifier run of any length >= 1 followed by `=` and a value,
\* Attribute.Read stores the identifier as name and the whole remainder,
\* quotes removed, as value.
C9_NameValue ==
    \A k \in 1..Len(content) :
        (pc = "done" /\ NameValue(content, k))
            => /\ ret.er = NoError
               /\ ret.name = Slice(content, 0, k)
               /\ ret.value = Unquote(Slice(content, k + 1, Len(content)))

\* C10: for a span that starts with a quote and ends with the same quote,
\* Attribute.Read succeeds with an empty name and the interior as value.
C10_QuotedValue ==
    (pc = "done" /\ Len(content) >= 2 /\ content[1] \in Quotes
        /\ content[Len(content)] = content[1])
        => /\ ret.er = NoError
           /\ ret.name = <<>>
           /\ ret.value = SubSeq(content, 2, Len(content) - 1)

\* C11: for a span whose first byte is a quote, double or single, and whose
\* last byte is not that same quote, Attribute.Read returns the quote error
\* and accepts no value.
C11_QuoteMismatch ==
    (pc = "done" /\ Len(content) >= 1 /\ content[1] \in Quotes
        /\ content[Len(content)] # content[1])
        => /\ ret.er = ErrAttributeQuote
           /\ ret.value = <<>>

\* An identifier run that fills the span up to a final `=`.
TrailingEquals(c) ==
    /\ Len(c) >= 2
    /\ c[Len(c)] = "="
    /\ \A i \in 1..(Len(c) - 1) : c[i] \in XI

\* C12: for an identifier run followed by `=` as the last byte, Attribute.Read
\* returns the AttributeSyntax error: it neither reads past the end of the
\* span nor aborts.
C12_TrailingEquals ==
    (pc = "done" /\ TrailingEquals(content)) => ret.er = ErrAttributeSyntax

\* C13: a Declaration, Instruction, Open or Solitary tag that carries k >= 1
\* whitespace-separated attributes name="value" gets exactly k attributes, in
\* source order, the i-th holding the i-th name and the i-th value.
C13_AllAttributes ==
    \A m \in TagMarks, as \in AttrLists :
        (pc = "done" /\ content = TagOf(m, as))
            => /\ er = NoError
               /\ Len(attributes) = Len(as)
               /\ \A i \in 1..Len(as) :
                     /\ attributes[i].name = as[i].name
                     /\ attributes[i].value = as[i].value

\* The longest run of identifier characters of c that starts at offset ofs:
\* empty when no identifier character stands there.
IdentifierRun(c, ofs) ==
    LET ends == {e \in ofs..Len(c) : \A i \in ofs..(e - 1) : At(c, i) \in XI}
    IN  Slice(c, ofs, SetMax(ends))

\* C18: the stored name is the longest run of identifier characters at the
\* offset of the Kind (2 for Declaration, Instruction and Close, 1 for Open
\* and Solitary), and it is empty when no identifier character stands there.
C18_NameIsIdentifierRun ==
    (pc = "done"
        /\ ElementKindOf(content) \in {KindDeclaration, KindInstruction,
                                       KindClose, KindOpen, KindSolitary})
        => name = IdentifierRun(content, NameOffset(ElementKindOf(content)))

\* The slice content[w:y] of the body is within range when it is taken.
SliceInRange(h, b) == (h.er = NoError /\ b.taken) => b.w <= b.y

SliceInRangeOf(h) == SliceInRange(h, ElementBody(content, h.kind, h.x))

\* C19: Element.Read never slices out of range: for every span of Kind Open,
\* whenever content[w:y] is taken, w <= y.
C19_SliceInRange ==
    (pc # "head" /\ ElementKindOf(content) = KindOpen)
        => SliceInRangeOf(ElementHead(content))

\* The nesting of a token list after its first i tokens.
Nesting(t, i) ==
    LET n[j \in 0..i] ==
            IF j = 0 THEN 0
            ELSE n[j - 1] + (CASE KindOf(t[j]) = KindOpen -> 1
                               [] KindOf(t[j]) = KindClose -> -1
                               [] OTHER -> 0)
    IN  n[i]

\* t is one element: it starts with an open tag, which only its last token, a
\* close tag, closes.
OneElement(t) ==
    /\ Len(t) >= 2
    /\ KindOf(t[1]) = KindOpen
    /\ KindOf(t[Len(t)]) = KindClose
    /\ \A i \in 1..(Len(t) - 1) : Nesting(t, i) >= 1
    /\ Nesting(t, Len(t)) = 0

\* buf holds exactly one complete element and nothing else.
CompleteChild(buf) ==
    /\ OneElement(TextListRead(buf))
    /\ Flatten(TextListRead(buf)) = buf

\* C17: each time a Close token brings the nesting counter back to 0, the
\* pending body with that token is exactly one complete child, from its open
\* tag through its matching close tag; it is built as one child Element and
\* the pending body is emptied.
C17_CloseFlushesOneChild ==
    [][(pc = "walk" /\ ix <= Len(list) /\ stack = 1
            /\ KindOf(list[ix]) = KindClose)
        => /\ CompleteChild(Cat(body, list[ix]))
           /\ er' = NoError
                => /\ body' = <<>>
                   /\ Len(children') = Len(children) + 1
                   /\ children'[Len(children')].content = Cat(body, list[ix])]_vars

\* C20: during the walk over the tokens of a body the nesting counter is
\* never negative.
C20_CounterNotNegative == stack >= 0

\* The Element that Element.Read returns in the current state.
ThisElement == Element(content, name, attributes, children)

\* C16: depth invariant: every Element child built inside an element of Kind
\* Open is one level deeper than that element.
C16_ChildIsOneDeeper ==
    (pc = "done" /\ er = NoError /\ ElementKindOf(content) = KindOpen)
        => \A i \in 1..Len(children) :
               children[i].node = "Element"
                   => Depth(children[i]) = Depth(ThisElement) + 1

\* The tokens of a document are well nested: every close tag closes an open
\* tag, and all are closed at the end.
WellNested(t) ==
    /\ \A i \in 1..Len(t) : Nesting(t, i) >= 0
    /\ Nesting(t, Len(t)) = 0

\* The top-level open/close pairs: the close tags that bring the nesting
\* from 1 back to 0.
TopLevelPairs(t) ==
    Cardinality({i \in 1..Len(t) :
                    KindOf(t[i]) = KindClose /\ Nesting(t, i) = 0})

SeveralPairs == WellNested(list) /\ TopLevelPairs(list) >= 2

\* The children of the Document that are Elements of Kind Open.
OpenChildren ==
    {i \in 1..Len(children) :
        /\ children[i].node = "Element"
        /\ ElementKindOf(children[i].content) = KindOpen}

\* C15: a buffer with several top-level open/close pairs, one after another,
\* is accepted and gives the Document one Element child per pair.
C15_OneElementPerPair ==
    (pc = "done" /\ SeveralPairs)
        => /\ er = NoError
           /\ Cardinality(OpenChildren) = TopLevelPairs(list)

\* The tokens Document.Read collects as body: the Open, Solitary and Close
\* tokens, and the Text and Data tokens after the first of them.
DocBodyTokens(t) ==
    LET tagged == {i \in 1..Len(t) : IsBody(KindOf(t[i]))}
        Kept(i) == i \in tagged
                   \/ (IsText(KindOf(t[i])) /\ \E j \in tagged : j < i)
        keep[i \in 0..Len(t)] ==
            IF i = 0 THEN <<>>
            ELSE IF Kept(i) THEN Append(keep[i - 1], t[i]) ELSE keep[i - 1]
    IN  keep[Len(t)]

\* The last child is the Element of the body tokens.
LastChildIsBody ==
    /\ Len(children) >= 1
    /\ children[Len(children)].node = "Element"
    /\ children[Len(children)].content = Flatten(DocBodyTokens(list))

\* No child is an empty Element, of Kind Undefined.
NoEmptyElement ==
    \A i \in 1..Len(children) :
        children[i].node = "Element"
            => ElementKindOf(children[i].content) # KindUndefined

\* C21: on every successful return of Document.Read the last child is the
\* Element whose content is the concatenation of the body tokens, and when
\* the buffer holds no body token no empty Element of Kind Undefined is
\* appended.
C21_LastChildIsRealElement ==
    (pc = "done" /\ er = NoError)
        => IF DocBodyTokens(list) # <<>>
           THEN LastChildIsBody
           ELSE NoEmptyElement
====
